---------------------------- MODULE Spec2Model ----------------------------
(***************************************************************************)
(* Model of generator.py (torrent-web-tools): the path catalog, the file   *)
(* ordering heuristic, the streaming piece hasher, the descriptor builder  *)
(* and the writer of the torrent file.                                     *)
(*                                                                         *)
(* Strings (paths, file contents) are sequences of one-character strings,  *)
(* so that the character-level operations of the code (commonprefix,       *)
(* str.replace, str.find, str.split) are computed as the code computes     *)
(* them.                                                                   *)
(***************************************************************************)
EXTENDS Integers, Sequences, FiniteSets, TLC

(***************************************************************************)
(* Bounds of the model.                                                    *)
(***************************************************************************)
\* number of paths on the command line (args.input, nargs='+')
MaxInputs == 2
\* largest --piece-length tried by the whole-program specification
MaxPieceLength == 2
\* latest clock value returned by time.time()
MaxTime == 1
\* standalone hasher specification: files per catalog, bytes per file, piece length
MaxFiles == 3
MaxFileLen == 4
MaxL == 4
\* standalone ordering specification: entries per catalog
MaxCatalog == 4
\* pieces ''.join (line 89) collects before the model stops following a run;
\* above (total length + 1) of every catalog of the specifications below, so
\* that only the runs of a non-positive piece length are cut
MaxPieces == 20

(***************************************************************************)
(* Generic helpers on sequences.                                           *)
(***************************************************************************)
Min(a, b) == IF a <= b THEN a ELSE b

Range(s) == {s[i] : i \in DOMAIN s}

RECURSIVE Flatten(_)
Flatten(ss) == IF ss = <<>> THEN <<>> ELSE Head(ss) \o Flatten(Tail(ss))

Reverse(s) == [i \in 1..Len(s) |-> s[Len(s) + 1 - i]]

\* all enumerations (without repetition) of a finite set
Perms(S) == {f \in [1..Cardinality(S) -> S] : \A i, j \in 1..Cardinality(S) : f[i] = f[j] => i = j}

\* all lists of 1..n elements of S (an element may occur more than once)
Lists(S, n) == UNION {[1..k -> S] : k \in 1..n}

(***************************************************************************)
(* Python string and os.path primitives used by generator.py.              *)
(***************************************************************************)
SEP == "/"

startswith(s, p) == Len(p) <= Len(s) /\ SubSeq(s, 1, Len(p)) = p

\* str.rstrip(os.sep)
RECURSIVE rstrip(_)
rstrip(s) == IF s # <<>> /\ s[Len(s)] = SEP THEN rstrip(SubSeq(s, 1, Len(s) - 1)) ELSE s

\* str.rfind(os.sep) + 1: length of the part up to and including the last separator
rfind1(s) == IF \E i \in 1..Len(s) : s[i] = SEP
             THEN CHOOSE i \in 1..Len(s) : s[i] = SEP /\ \A j \in (i + 1)..Len(s) : s[j] # SEP
             ELSE 0

\* str.find(sub): 0-based offset of the first occurrence, -1 when there is none
find(in_str, sub_str) ==
    LET hits == {i \in 0..(Len(in_str) - Len(sub_str)) :
                    SubSeq(in_str, i + 1, i + Len(sub_str)) = sub_str}
    IN IF hits = {} THEN -1 ELSE CHOOSE i \in hits : \A j \in hits : i <= j

\* str.replace(old, ''): every non-overlapping occurrence, left to right
RECURSIVE replace_with_empty(_, _)
replace_with_empty(s, old) ==
    IF Len(s) < Len(old) THEN s
    ELSE IF startswith(s, old) THEN replace_with_empty(SubSeq(s, Len(old) + 1, Len(s)), old)
    ELSE <<Head(s)>> \o replace_with_empty(Tail(s), old)

\* os.path.commonprefix: the longest common character prefix of the strings
commonprefix(list) ==
    IF list = <<>> THEN <<>>
    ELSE LET agree(k) == \A i \in 1..Len(list) :
                            Len(list[i]) >= k /\ SubSeq(list[i], 1, k) = SubSeq(list[1], 1, k)
             n == CHOOSE k \in 0..Len(list[1]) : agree(k) /\ (k = Len(list[1]) \/ ~agree(k + 1))
         IN SubSeq(list[1], 1, n)

\* os.path.split(p)[0]
split_head(p) ==
    LET head == SubSeq(p, 1, rfind1(p))
    IN IF head # <<>> /\ rstrip(head) # <<>> THEN rstrip(head) ELSE head

\* os.path.basename(p)
basename(p) == SubSeq(p, rfind1(p) + 1, Len(p))

\* os.path.join(a, b)
join2(a, b) == IF startswith(b, <<SEP>>) THEN b
               ELSE IF a = <<>> \/ a[Len(a)] = SEP THEN a \o b
               ELSE a \o <<SEP>> \o b

\* os.path.join(*components)
RECURSIVE join_from(_, _)
join_from(acc, rest) == IF rest = <<>> THEN acc ELSE join_from(join2(acc, Head(rest)), Tail(rest))

ospath_join(components) == join_from(Head(components), Tail(components))

(***************************************************************************)
(* The file system the program runs on: regular files with their content,  *)
(* and directories.                                                        *)
(***************************************************************************)
P_a == <<"/", "a">>
P_s == P_a \o <<"/", "s">>
P_index == P_s \o <<"/", "i", "n", "d", "e", "x", ".", "h", "t", "m", "l">>
P_z == P_s \o <<"/", "z">>
P_j == P_s \o <<"/", "j">>
P_jp == P_j \o <<"/", "p">>
P_s2 == P_a \o <<"/", "s", "2">>
P_s2x == P_s2 \o <<"/", "x">>
P_t == P_a \o <<"/", "t">>
P_ta == P_t \o <<"/", "a">>
P_tac == P_ta \o <<"/", "c">>
P_o == P_a \o <<"/", "o">>
P_of == P_o \o <<"/", "f">>
P_og == P_o \o <<"/", ".", "g">>
P_h == P_a \o <<"/", "h">>
P_hk == P_h \o <<"/", ".", "k">>
P_e == P_a \o <<"/", "e">>

WorldFiles ==
    (P_index :> <<"j", "/", "p">>) @@ (P_z :> <<"z", "z">>) @@ (P_jp :> <<"p">>) @@
    (P_s2x :> <<"x", "y">>) @@ (P_tac :> <<"c">>) @@
    (P_of :> <<"f">>) @@ (P_og :> <<"g">>) @@ (P_hk :> <<"k">>)

WorldDirs == {<<SEP>>, P_a, P_s, P_j, P_s2, P_t, P_ta, P_o, P_h, P_e}

World == [files |-> WorldFiles, dirs |-> WorldDirs]

\* the paths a user may name on the command line (all exist: file_or_dir)
InputPaths == {P_s, P_s2, P_t, P_o, P_h, P_e, P_z, P_index}

\* the working directory of the process (os.path.abspath resolves against it)
cwd == P_a

\* os.path.isdir
isdir(fs, p) == p # <<>> /\ (IF rstrip(p) = <<>> THEN <<SEP>> ELSE rstrip(p)) \in fs.dirs

\* os.path.getsize
getsize(fs, p) == Len(fs.files[p])

(***************************************************************************)
(* PathCatalog: generator.py lines 16-66 and 92-102.                       *)
(***************************************************************************)
common_path_for_files(fs, file_paths) ==
    LET common_prefix == commonprefix(file_paths)
    IN IF ~isdir(fs, common_prefix) THEN split_head(common_prefix) ELSE common_prefix

relativize_file_path(file_path, common_path) ==
    replace_with_empty(file_path, rstrip(common_path) \o <<SEP>>)

\* str.split(os.sep)
RECURSIVE split_path_components(_)
split_path_components(file_path) ==
    IF \E i \in 1..Len(file_path) : file_path[i] = SEP
    THEN LET i == CHOOSE k \in 1..Len(file_path) :
                      file_path[k] = SEP /\ \A j \in 1..(k - 1) : file_path[j] # SEP
         IN <<SubSeq(file_path, 1, i - 1)>>
                \o split_path_components(SubSeq(file_path, i + 1, Len(file_path)))
    ELSE <<file_path>>

join_path_component_list(path_components_list) ==
    LET joined == ospath_join(path_components_list)
    IN IF path_components_list[1] = <<>> THEN <<SEP>> \o joined ELSE joined

\* ctypes.windll does not exist on POSIX: AttributeError, result = False
has_hidden_attribute(filepath) == FALSE

\* os.path.basename(os.path.abspath(element)) for one path component: the
\* empty leading component of an absolute path resolves to the working directory
element_basename(element) == IF element = <<>> THEN basename(cwd) ELSE element

is_hidden_path(file_path) ==
    \E element \in Range(split_path_components(file_path)) :
        startswith(element_basename(element), <<".">>) \/ has_hidden_attribute(element)

RECURSIVE filter_hidden_files(_)
filter_hidden_files(file_paths) ==
    IF file_paths = <<>> THEN <<>>
    ELSE (IF is_hidden_path(Head(file_paths)) THEN <<>>
          ELSE <<join_path_component_list(split_path_components(Head(file_paths)))>>)
         \o filter_hidden_files(Tail(file_paths))

\* the entries of a directory
child_files(fs, dir) == {p \in DOMAIN fs.files : split_head(p) = dir}
child_dirs(fs, dir) == {d \in fs.dirs : d # dir /\ split_head(d) = dir}

\* os.walk(path), top down: the file names of a directory in the order
\* os.listdir returns them (unspecified), then its subdirectories in listdir
\* order.  The set of all lists the traversal can return.
RECURSIVE collect_child_file_paths(_, _)
RECURSIVE walk_subdirs(_, _)
walk_subdirs(fs, dirseq) ==
    IF dirseq = <<>> THEN {<<>>}
    ELSE {a \o b : a \in collect_child_file_paths(fs, Head(dirseq)),
                   b \in walk_subdirs(fs, Tail(dirseq))}

collect_child_file_paths(fs, path) ==
    UNION {{[i \in 1..Len(fnames) |-> join2(path, basename(fnames[i]))] \o sub :
                sub \in walk_subdirs(fs, dnames)} :
           fnames \in Perms(child_files(fs, path)), dnames \in Perms(child_dirs(fs, path))}

\* lines 140-145: the lists `subpaths` can hold after the loop over file_paths
RECURSIVE collect_subpaths(_, _)
collect_subpaths(fs, file_paths) ==
    IF file_paths = <<>> THEN {<<>>}
    ELSE IF isdir(fs, Head(file_paths))
         THEN {a \o b : a \in collect_child_file_paths(fs, Head(file_paths)),
                        b \in collect_subpaths(fs, Tail(file_paths))}
         ELSE collect_subpaths(fs, Tail(file_paths))

\* list.remove(x): drops the first occurrence
RECURSIVE list_remove(_, _)
list_remove(list, x) ==
    IF list = <<>> THEN <<>>
    ELSE IF Head(list) = x THEN Tail(list)
    ELSE <<Head(list)>> \o list_remove(Tail(list), x)

RECURSIVE remove_all(_, _)
remove_all(list, dirs) ==
    IF dirs = <<>> THEN list ELSE remove_all(list_remove(list, Head(dirs)), Tail(dirs))

\* lines 146-148: file_paths after extend(subpaths) and the removal of each directory
expand_directories(fs, file_paths, subpaths) ==
    remove_all(file_paths \o subpaths, SelectSeq(file_paths, LAMBDA p : isdir(fs, p)))

build_file_detail_dict(fs, file_path, common_path) ==
    LET rel_path == relativize_file_path(file_path, common_path)
        rel_path_components == split_path_components(rel_path)
    IN [name |-> rel_path_components[Len(rel_path_components)],
        full_path |-> file_path,
        rel_path |-> rel_path,
        file_length |-> getsize(fs, file_path),
        rel_path_components |-> rel_path_components]

(***************************************************************************)
(* OrderingPolicy: generator.py lines 105-133.                             *)
(***************************************************************************)
\* list.sort(key=...) is stable: an item ends up after the items of smaller
\* key and after the items of equal key that were before it.  keys[i] is the
\* key of list[i].
sorted_position(keys, i) ==
    1 + Cardinality({j \in 1..Len(keys) : keys[j] < keys[i] \/ (keys[j] = keys[i] /\ j < i)})

list_sort(list, keys) ==
    [k \in 1..Len(list) |-> list[CHOOSE i \in 1..Len(list) : sorted_position(keys, i) = k]]

\* list.sort(key=..., reverse=True): the list is reversed, sorted, and reversed
\* again, which keeps equal keys in their original order
list_sort_reverse(list, keys) == Reverse(list_sort(Reverse(list), Reverse(keys)))

INDEX_HTML == <<"i", "n", "d", "e", "x", ".", "h", "t", "m", "l">>

\* len(item['rel_path_components']) == 1 and item['name'] == 'index.html'
is_root_index(item) == Len(item.rel_path_components) = 1 /\ item.name = INDEX_HTML

\* a position sort that keeps str.find's -1 for a path that does not occur
html_position_sort_raw_find(in_str, sub_str) == find(in_str, sub_str)

html_position_sort(in_str, sub_str) ==
    LET position == find(in_str, sub_str)
    IN IF position < 0 THEN Len(in_str) ELSE position

\* lines 110-115: the text of the first root-level index.html, '' when there is none
read_index_contents(fs, file_details) ==
    IF \E i \in 1..Len(file_details) : is_root_index(file_details[i])
    THEN LET i == CHOOSE k \in 1..Len(file_details) :
                      is_root_index(file_details[k])
                      /\ \A j \in 1..(k - 1) : ~is_root_index(file_details[j])
         IN fs.files[file_details[i].full_path]
    ELSE <<>>

\* line 107: sort files in root of torrent to front
sort_by_depth(file_details) ==
    list_sort(file_details,
              [i \in 1..Len(file_details) |-> Len(file_details[i].rel_path_components)])

\* lines 118-119
sort_by_position(index_contents, file_details) ==
    IF Len(index_contents) > 0
    THEN list_sort(file_details,
                   [i \in 1..Len(file_details) |->
                       html_position_sort(index_contents, file_details[i].rel_path)])
    ELSE file_details

\* line 122: sort index.html to front
sort_index_first(file_details) ==
    list_sort_reverse(file_details,
                      [i \in 1..Len(file_details) |->
                          IF is_root_index(file_details[i]) THEN 1 ELSE 0])

\* the three sorts in sequence, each applied to the list the one before left
sort_files(fs, file_details) ==
    CHOOSE sorted \in
        {sort_index_first(by_position) :
            by_position \in {sort_by_position(read_index_contents(fs, by_depth), by_depth) :
                                by_depth \in {sort_by_depth(file_details)}}} : TRUE

(***************************************************************************)
(* PieceHasher and MetadataBuilder helpers: lines 69-89 and 163-213.       *)
(***************************************************************************)
\* hashlib.sha1(data).digest(), taken as collision free: the digest names its input
sha1(data) == [sha1_of |-> data]

\* file.read(n) at offset pos: up to n bytes, everything left when n is negative
file_read(content, pos, n) ==
    IF n < 0 THEN SubSeq(content, pos + 1, Len(content))
    ELSE SubSeq(content, pos + 1, Min(pos + n, Len(content)))

\* a read that forgets what the accumulator already holds
read_size_whole_piece(piece_length, data) == piece_length

\* line 79: the size asked of file_handle.read
read_size(piece_length, data) == piece_length - Len(data)

\* the contents of the files of a list, in list order
stream_of(fs, paths) == Flatten([i \in 1..Len(paths) |-> fs.files[paths[i]]])

None == [kind |-> "None", text |-> <<>>]
py_str(text) == [kind |-> "str", text |-> text]
py_unicode(text) == [kind |-> "unicode", text |-> text]

\* lines 173-179
torrent_name(name, file_paths, common_path) ==
    IF name = None
    THEN IF Len(file_paths) = 1 THEN py_str(basename(file_paths[1]))
         ELSE py_str(basename(rstrip(common_path)))
    ELSE name

\* lines 181-208; `pieces` is the list of pieces read_in_pieces yielded
torrent_dict_for(name, piece_length, pieces, file_paths, file_details, trackers, webseeds, time) ==
    LET info == [name |-> name,
                 piece_length |-> piece_length,
                 pieces |-> [i \in 1..Len(pieces) |-> sha1(pieces[i])]]
        info_files == IF Len(file_paths) = 1
                      THEN ("length" :> file_details[1].file_length)
                      ELSE ("files" :> [i \in 1..Len(file_details) |->
                                [length |-> file_details[i].file_length,
                                 path |-> file_details[i].rel_path_components]])
        base == [created_by |-> "TWT-Gen/0.0.1", creation_date |-> time, encoding |-> "UTF-8",
                 info |-> info @@ info_files]
        with_announce == IF Len(trackers) > 0
                         THEN base @@ [announce |-> trackers[1], announce_list |-> <<trackers>>]
                         ELSE base
    IN IF Len(webseeds) > 0 THEN with_announce @@ [url_list |-> webseeds] ELSE with_announce

\* bencode() of the bencode package encodes str, int, list and dict values and
\* raises for any other type (a unicode name)
bencodable(torrent_dict) == torrent_dict.info.name.kind = "str"

bencode(torrent_dict) == [bencoded |-> torrent_dict]

(***************************************************************************)
(* The program state.                                                      *)
(***************************************************************************)
VARIABLES
    args,             \* the parsed command line (lines 309-317)
    fs,               \* the file system
    now,              \* the clock read by time.time()
    run,              \* 1 for the first invocation, 2 for a second one with the same arguments
    previous_output,  \* the destination file as it was when the invocation started
    output_file,      \* the destination file (args.output)
    pc,               \* position of the invocation, or the exception that ended it
    file_paths,       \* the list object build_torrent_dict passes to process_files
    common_path,
    pf_file_paths,    \* process_files' own file_paths after line 151
    unsorted,         \* file_details as built at line 153, before sort_files
    file_details,
    file_idx,         \* read_in_pieces: index of the current path
    file_pos,         \* read_in_pieces: offset in the open file
    data,             \* read_in_pieces: the accumulator
    pieces,           \* the pieces read_in_pieces has yielded
    torrent_dict

vars == <<args, fs, now, run, previous_output, output_file, pc, file_paths, common_path,
          pf_file_paths, unsorted, file_details, file_idx, file_pos, data, pieces, torrent_dict>>

env_vars == <<args, fs, run, previous_output>>
catalog_vars == <<file_paths, common_path, pf_file_paths, unsorted, file_details>>
hasher_vars == <<file_idx, file_pos, data, pieces>>

Absent == [state |-> "absent"]
Truncated == [state |-> "truncated"]
Written(bytes) == [state |-> "written", content |-> bytes]
NoDict == [unset |-> TRUE]

\* --piece-length is type=int: any integer is accepted
PieceLengths == -1..MaxPieceLength

\* --name is type=str, default None
Names == {None, py_str(<<"n">>)}

\* --tracker and --webseed: lists of strings valid_url (lines 257-273) lets
\* through, here 'udp://t.co' and 'http://w.org/'; an option that is not given
\* is None, which lines 166-170 replace by []
TRACKER == py_str(<<"u", "d", "p", ":", "/", "/", "t", ".", "c", "o">>)
WEBSEED == py_str(<<"h", "t", "t", "p", ":", "/", "/", "w", ".", "o", "r", "g", "/">>)

\* the values parse_args can return for the arguments build_torrent_dict is given
ArgsSet == [input : Lists(InputPaths, MaxInputs),
            name : Names,
            trackers : {<<>>, <<TRACKER>>},
            webseeds : {<<>>, <<WEBSEED>>},
            piece_length : PieceLengths,
            include_hidden : BOOLEAN,
            optimize_file_order : BOOLEAN]

\* the state in which build_torrent_dict is entered
Started(a, f) ==
    /\ args = a
    /\ fs = f
    /\ pc = "start"
    /\ file_paths = a.input
    /\ common_path = <<>>
    /\ pf_file_paths = <<>>
    /\ unsorted = <<>>
    /\ file_details = <<>>
    /\ file_idx = 1
    /\ file_pos = 0
    /\ data = <<>>
    /\ pieces = <<>>
    /\ torrent_dict = NoDict

Init ==
    /\ \E a \in ArgsSet : Started(a, World)
    /\ now = 0
    /\ run = 1
    /\ previous_output = Absent
    /\ output_file = Absent

(***************************************************************************)
(* process_files, lines 137-153: common path, directory expansion, hidden  *)
(* file filter, file details.                                              *)
(***************************************************************************)
CollectFiles ==
    /\ pc = "start"
    /\ common_path' = common_path_for_files(fs, file_paths)
    /\ \E subpaths \in collect_subpaths(fs, file_paths) :
          file_paths' = expand_directories(fs, file_paths, subpaths)
    /\ pf_file_paths' = IF ~args.include_hidden THEN filter_hidden_files(file_paths')
                        ELSE file_paths'
    /\ file_details' = [i \in 1..Len(pf_file_paths') |->
                            build_file_detail_dict(fs, pf_file_paths'[i], common_path')]
    /\ unsorted' = file_details'
    /\ pc' = "sort"
    /\ UNCHANGED <<env_vars, now, output_file, hasher_vars, torrent_dict>>

\* process_files, lines 155-156
SortFiles ==
    /\ pc = "sort"
    /\ file_details' = IF args.optimize_file_order THEN sort_files(fs, file_details)
                       ELSE file_details
    /\ pc' = "hash_open"
    /\ UNCHANGED <<env_vars, now, output_file, file_paths, common_path, pf_file_paths, unsorted,
                   hasher_vars, torrent_dict>>

(***************************************************************************)
(* read_in_pieces, lines 74-84, driven by ''.join at line 89.              *)
(***************************************************************************)
\* line 77: open(path, 'rb')
OpenFile ==
    /\ pc = "hash_open"
    /\ file_idx <= Len(pf_file_paths)
    /\ file_pos' = 0
    /\ pc' = "hash_read"
    /\ UNCHANGED <<env_vars, now, output_file, catalog_vars, file_idx, data, pieces, torrent_dict>>

\* line 77: the file became unreadable after the catalog was built; the
\* IOError leaves build_torrent_dict and ends the program
OpenFileError ==
    /\ pc = "hash_open"
    /\ file_idx <= Len(pf_file_paths)
    /\ pc' = "IOError"
    /\ UNCHANGED <<env_vars, now, output_file, catalog_vars, hasher_vars, torrent_dict>>

\* lines 79-81: read into the accumulator; a short accumulator leaves the file
ReadData ==
    /\ pc = "hash_read"
    /\ LET content == fs.files[pf_file_paths[file_idx]]
           chunk == file_read(content, file_pos, read_size(args.piece_length, data))
           acc == data \o chunk
       IN /\ data' = acc
          /\ IF Len(acc) < args.piece_length
             THEN /\ pc' = "hash_open"
                  /\ file_idx' = file_idx + 1
                  /\ file_pos' = 0
             ELSE /\ pc' = "hash_yield"
                  /\ file_idx' = file_idx
                  /\ file_pos' = file_pos + Len(chunk)
    /\ UNCHANGED <<env_vars, now, output_file, catalog_vars, pieces, torrent_dict>>

\* lines 82-83
YieldPiece ==
    /\ pc = "hash_yield"
    /\ Len(pieces) < MaxPieces
    /\ pieces' = Append(pieces, data)
    /\ data' = <<>>
    /\ pc' = "hash_read"
    /\ UNCHANGED <<env_vars, now, output_file, catalog_vars, file_idx, file_pos, torrent_dict>>

\* line 84, after the last file
YieldLast ==
    /\ pc = "hash_open"
    /\ file_idx > Len(pf_file_paths)
    /\ Len(pieces) < MaxPieces
    /\ pieces' = Append(pieces, data)
    /\ pc' = "hashed"
    /\ UNCHANGED <<env_vars, now, output_file, catalog_vars, file_idx, file_pos, data, torrent_dict>>

(***************************************************************************)
(* build_torrent_dict after process_files, lines 173-208.                  *)
(***************************************************************************)
BuildTorrentDict ==
    /\ pc = "hashed"
    /\ IF Len(file_paths) = 1 /\ file_details = <<>>
       THEN \* line 202: file_details[0] of an empty list
            /\ pc' = "IndexError"
            /\ UNCHANGED <<now, torrent_dict>>
       ELSE \E t \in now..MaxTime :
               /\ now' = t
               /\ torrent_dict' = torrent_dict_for(
                      torrent_name(args.name, file_paths, common_path), args.piece_length,
                      pieces, file_paths, file_details, args.trackers, args.webseeds, t)
               /\ pc' = "built"
    /\ UNCHANGED <<env_vars, output_file, catalog_vars, hasher_vars>>

(***************************************************************************)
(* write_torrent_file, lines 211-213, and the rest of the program.         *)
(***************************************************************************)
\* line 212: open(output_file_path, 'wb') creates or truncates the destination
OpenOutput ==
    /\ pc = "built"
    /\ output_file' = Truncated
    /\ pc' = "write"
    /\ UNCHANGED <<env_vars, now, catalog_vars, hasher_vars, torrent_dict>>

\* line 213: bencode(torrent_dict) is evaluated with the destination open
WriteOutput ==
    /\ pc = "write"
    /\ IF bencodable(torrent_dict)
       THEN /\ output_file' = Written(bencode(torrent_dict))
            /\ pc' = "written"
       ELSE /\ pc' = "EncodeError"
            /\ UNCHANGED output_file
    /\ UNCHANGED <<env_vars, now, catalog_vars, hasher_vars, torrent_dict>>

\* lines 238-241, called at line 320: torrent_dict['info']['files'] is a
\* KeyError for a single-file torrent
WarnIfNoIndexHtml ==
    /\ pc = "written"
    /\ pc' = IF "files" \in DOMAIN torrent_dict.info THEN "done" ELSE "KeyError"
    /\ UNCHANGED <<env_vars, now, output_file, catalog_vars, hasher_vars, torrent_dict>>

\* the program is run a second time with the same arguments
RunAgain ==
    /\ run = 1
    /\ pc \in {"done", "KeyError"}
    /\ run' = 2
    /\ previous_output' = output_file
    /\ pc' = "start"
    /\ file_paths' = args.input
    /\ common_path' = <<>>
    /\ pf_file_paths' = <<>>
    /\ unsorted' = <<>>
    /\ file_details' = <<>>
    /\ file_idx' = 1
    /\ file_pos' = 0
    /\ data' = <<>>
    /\ pieces' = <<>>
    /\ torrent_dict' = NoDict
    /\ UNCHANGED <<args, fs, now, output_file>>

Next ==
    \/ CollectFiles
    \/ SortFiles
    \/ OpenFile
    \/ OpenFileError
    \/ ReadData
    \/ YieldPiece
    \/ YieldLast
    \/ BuildTorrentDict
    \/ OpenOutput
    \/ WriteOutput
    \/ WarnIfNoIndexHtml
    \/ RunAgain

Spec == Init /\ [][Next]_vars

\* ''.join at line 89 drives the generator for as long as it yields: a step of
\* read_in_pieces that stays enabled is taken (a read error is not forced)
FairSpec ==
    /\ Spec
    /\ WF_vars(OpenFile)
    /\ WF_vars(ReadData)
    /\ WF_vars(YieldPiece)
    /\ WF_vars(YieldLast)

(***************************************************************************)
(* build_torrent_dict and write_torrent_file called by another program:    *)
(* the caller chooses the arguments, so the list may be empty and the name *)
(* may be any object, a unicode string among them.                         *)
(***************************************************************************)
CallNames == {None, py_str(<<"n">>), py_unicode(<<"n">>)}

CallArgsSet == [input : {<<>>} \cup Lists(InputPaths, MaxInputs),
                name : CallNames,
                trackers : {<<>>},
                webseeds : {<<>>},
                piece_length : PieceLengths,
                include_hidden : BOOLEAN,
                optimize_file_order : BOOLEAN]

CallInit ==
    /\ \E a \in CallArgsSet : Started(a, World)
    /\ now = 0
    /\ run = 1
    /\ previous_output = Absent
    /\ output_file = Absent

CallNext ==
    \/ CollectFiles
    \/ SortFiles
    \/ OpenFile
    \/ OpenFileError
    \/ ReadData
    \/ YieldPiece
    \/ YieldLast
    \/ BuildTorrentDict
    \/ OpenOutput
    \/ WriteOutput

CallSpec == CallInit /\ [][CallNext]_vars

(***************************************************************************)
(* The hasher on its own: read_in_pieces over every catalog of at most     *)
(* MaxFiles files of at most MaxFileLen bytes.  The catalogs cut one byte  *)
(* stream 1, 2, 3, ... at every possible set of file boundaries.           *)
(***************************************************************************)
HashPath(i) == <<SEP, "f", ToString(i)>>

HashLens == UNION {[1..n -> 0..MaxFileLen] : n \in 0..MaxFiles}

RECURSIVE SumTo(_, _)
SumTo(lens, n) == IF n = 0 THEN 0 ELSE lens[n] + SumTo(lens, n - 1)

HashWorld(lens) ==
    [files |-> [path \in {HashPath(i) : i \in 1..Len(lens)} |->
                   LET i == CHOOSE k \in 1..Len(lens) : HashPath(k) = path
                   IN [b \in 1..lens[i] |-> SumTo(lens, i - 1) + b]],
     dirs |-> {<<SEP>>}]

HashInit ==
    /\ \E lens \in HashLens, L \in 1..MaxL :
          LET paths == [i \in 1..Len(lens) |-> HashPath(i)]
          IN /\ args = [input |-> paths, name |-> None, trackers |-> <<>>, webseeds |-> <<>>,
                        piece_length |-> L, include_hidden |-> TRUE,
                        optimize_file_order |-> FALSE]
             /\ fs = HashWorld(lens)
             /\ file_paths = paths
             /\ pf_file_paths = paths
    /\ pc = "hash_open"
    /\ common_path = <<SEP>>
    /\ unsorted = <<>>
    /\ file_details = <<>>
    /\ file_idx = 1
    /\ file_pos = 0
    /\ data = <<>>
    /\ pieces = <<>>
    /\ torrent_dict = NoDict
    /\ now = 0
    /\ run = 1
    /\ previous_output = Absent
    /\ output_file = Absent

HashNext == OpenFile \/ OpenFileError \/ ReadData \/ YieldPiece \/ YieldLast

HashSpec == HashInit /\ [][HashNext]_vars

(***************************************************************************)
(* sort_files on its own: every catalog of at most MaxCatalog entries      *)
(* naming files of a small site (a file may be listed more than once), in  *)
(* every order, for several index.html texts.                              *)
(***************************************************************************)
S_w == <<"/", "w">>
S_index == S_w \o <<SEP>> \o INDEX_HTML
S_k == S_w \o <<"/", "k">>
S_z == S_w \o <<"/", "z">>
S_jp == S_w \o <<"/", "j", "/", "p">>
S_jq == S_w \o <<"/", "j", "/", "q">>
S_jindex == S_w \o <<"/", "j", "/">> \o INDEX_HTML

SortPaths == {S_index, S_k, S_z, S_jp, S_jq, S_jindex}

IndexTexts == {<<>>, <<"k", "j", "/", "p">>, <<"j", "/", "q", "z">>}

SortWorld(text) ==
    [files |-> (S_index :> text) @@ (S_k :> <<"k">>) @@ (S_z :> <<"z">>) @@
               (S_jp :> <<"p">>) @@ (S_jq :> <<"q">>) @@ (S_jindex :> <<"k">>),
     dirs |-> {<<SEP>>, S_w, S_w \o <<"/", "j">>}]

SortInit ==
    /\ \E paths \in Lists(SortPaths, MaxCatalog), text \in IndexTexts, optimize \in BOOLEAN :
          LET details == [i \in 1..Len(paths) |->
                             build_file_detail_dict(SortWorld(text), paths[i], S_w)]
          IN /\ args = [input |-> <<S_w>>, name |-> None, trackers |-> <<>>, webseeds |-> <<>>,
                        piece_length |-> 1, include_hidden |-> TRUE,
                        optimize_file_order |-> optimize]
             /\ fs = SortWorld(text)
             /\ file_paths = paths
             /\ pf_file_paths = paths
             /\ unsorted = details
             /\ file_details = details
    /\ pc = "sort"
    /\ common_path = S_w
    /\ file_idx = 1
    /\ file_pos = 0
    /\ data = <<>>
    /\ pieces = <<>>
    /\ torrent_dict = NoDict
    /\ now = 0
    /\ run = 1
    /\ previous_output = Absent
    /\ output_file = Absent

SortNext == SortFiles

SortSpec == SortInit /\ [][SortNext]_vars

(***************************************************************************)
(* Properties.                                                             *)
(***************************************************************************)
\* read_in_pieces is running
HasherStates == {"hash_open", "hash_read", "hash_yield"}
\* read_in_pieces has been exhausted and the invocation went on
AfterHash == {"hashed", "built", "write", "written", "done", "KeyError", "EncodeError",
              "IndexError"}
\* a descriptor was returned by build_torrent_dict
HasDescriptor == {"built", "write", "written", "done", "KeyError", "EncodeError"}
\* the whole descriptor was serialized and written
Serialized == {"written", "done", "KeyError"}

catalog_paths == [i \in 1..Len(file_details) |-> file_details[i].full_path]

\* C1: the byte stream that is cut into pieces is the concatenation of the
\* files in the final catalog order: the i-th entry of the catalog (and of
\* info['files']) is the i-th file the hasher read.
C1_HashedStreamFollowsCatalogOrder ==
    (pc \in AfterHash /\ args.piece_length >= 1) =>
        /\ catalog_paths = pf_file_paths
        /\ Flatten(pieces) = stream_of(fs, catalog_paths)

\* C2: for a piece length L >= 1 and N bytes of content, ceil(N / L) digests are
\* produced, the last one over N mod L bytes (L when L divides N and N > 0).
C2_PieceCountIsCeiling ==
    (pc = "hashed" /\ args.piece_length >= 1) =>
        LET N == Len(stream_of(fs, pf_file_paths))
            L == args.piece_length
        IN /\ Len(pieces) = (N + L - 1) \div L
           /\ N > 0 => Len(pieces[Len(pieces)]) = (IF N % L = 0 THEN L ELSE N % L)

\* the pieces of a byte stream, from the stream alone: each full run of L
\* bytes, then what is left
pieces_of_stream(stream, L) ==
    [i \in 1..(Len(stream) \div L + 1) |->
        SubSeq(stream, (i - 1) * L + 1, Min(i * L, Len(stream)))]

\* C3: the pieces read_in_pieces yields are a function of the concatenation of
\* the files and of the piece length only, wherever the file boundaries fall
\* (empty files included), and every piece but the last has exactly L bytes.
C3_BoundaryTransparent ==
    LET stream == stream_of(fs, pf_file_paths)
        L == args.piece_length
    IN /\ pc = "hashed" => pieces = pieces_of_stream(stream, L)
       /\ \A i \in 1..Len(pieces) : (i < Len(pieces) \/ pc # "hashed") => Len(pieces[i]) = L
       /\ pc \in {"hash_open", "hash_read", "hash_yield"} =>
             /\ Len(data) <= L
             /\ startswith(stream, Flatten(pieces) \o data)

\* C3 witness: a stream of L + K bytes held by a file of L bytes followed by a
\* file of K bytes has been hashed into the piece of L bytes and the piece of K
\* bytes of the single file
C3_Witness ==
    /\ pc = "hashed"
    /\ Len(pf_file_paths) = 2
    /\ args.piece_length = 2
    /\ Len(fs.files[pf_file_paths[1]]) = 2
    /\ Len(fs.files[pf_file_paths[2]]) = 1
    /\ pieces = <<<<1, 2>>, <<3>>>>

\* C4: the descriptor has info['length'] and no info['files'] exactly when the
\* catalog (after expansion and hidden-file filtering) has one entry; otherwise
\* info['files'] has one entry per catalog entry and there is no info['length'].
C4_SingleLengthIffOneEntry ==
    pc \in HasDescriptor =>
        LET keys == DOMAIN torrent_dict.info
        IN IF Len(file_details) = 1
           THEN "length" \in keys /\ "files" \notin keys
           ELSE /\ "length" \notin keys
                /\ "files" \in keys
                /\ Len(torrent_dict.info["files"]) = Len(file_details)

\* C5: common_root is an ancestor directory of every record's absolute path,
\* and joining common_root with the record's relative components gives back
\* the absolute path.
C5_RelativeToCommonRoot ==
    pc # "start" =>
        \A i \in 1..Len(file_details) :
            /\ startswith(file_details[i].full_path, rstrip(common_path) \o <<SEP>>)
            /\ ospath_join(<<common_path>> \o file_details[i].rel_path_components)
                  = file_details[i].full_path

\* the offset at which a path first occurs in a text, the length of the text
\* when it does not occur
first_offset(text, path) ==
    LET at(i) == i + Len(path) <= Len(text) /\ SubSeq(text, i + 1, i + Len(path)) = path
    IN IF \E i \in 0..Len(text) : at(i)
       THEN CHOOSE i \in 0..Len(text) : at(i) /\ \A j \in 0..(i - 1) : ~at(j)
       ELSE Len(text)

\* the rank of an entry: the root-level index.html first, then by offset in the
\* text of index.html, then by depth
order_rank(item, has_index, text) ==
    <<IF is_root_index(item) THEN 0 ELSE 1,
      IF has_index THEN first_offset(text, item.rel_path) ELSE 0,
      Len(item.rel_path_components)>>

rank_less(a, b) ==
    \/ a[1] < b[1]
    \/ a[1] = b[1] /\ a[2] < b[2]
    \/ a[1] = b[1] /\ a[2] = b[2] /\ a[3] < b[3]

\* the entries of a list that have a given rank, in list order
of_rank(list, r, has_index, text) ==
    SelectSeq(list, LAMBDA d : order_rank(d, has_index, text) = r)

\* C6: with optimize on, sort_files leaves a permutation of the catalog with
\* the root-level index.html first and the other files by ascending offset of
\* their relative path in index.html's text (text length when absent), then by
\* ascending depth, then in the original order; without a root-level
\* index.html only the depth decides.
C6_SortOrder ==
    (pc = "hash_open" /\ args.optimize_file_order) =>
        LET has_index == \E d \in Range(unsorted) : is_root_index(d)
            text == IF has_index
                    THEN fs.files[(CHOOSE d \in Range(unsorted) : is_root_index(d)).full_path]
                    ELSE <<>>
            rank(d) == order_rank(d, has_index, text)
        IN /\ Len(file_details) = Len(unsorted)
           /\ Range(file_details) = Range(unsorted)
           /\ \A i, j \in 1..Len(file_details) :
                 i < j => ~rank_less(rank(file_details[j]), rank(file_details[i]))
           /\ \A d \in Range(unsorted) :
                 of_rank(file_details, rank(d), has_index, text)
                    = of_rank(unsorted, rank(d), has_index, text)

\* C6 witness: index.html mentions j/p; the catalog [z, j/p, index.html] has
\* been sorted into [index.html, j/p, z]
C6_Witness ==
    /\ pc = "hash_open"
    /\ args.optimize_file_order
    /\ find(fs.files[S_index], <<"j", "/", "p">>) >= 0
    /\ [i \in 1..Len(unsorted) |-> unsorted[i].full_path] = <<S_z, S_jp, S_index>>
    /\ catalog_paths = <<S_index, S_jp, S_z>>

\* C7: when no file is left after expansion and filtering the build fails:
\* nothing is hashed, no descriptor is returned, nothing is written.
C7_EmptyCatalogFails ==
    (pc # "start" /\ pf_file_paths = <<>>) =>
        /\ pieces = <<>>
        /\ pc \notin HasDescriptor
        /\ output_file = previous_output

\* C8: a run that fails while hashing, building or serializing never creates,
\* truncates or writes the destination.
C8_NoOutputOnFailure ==
    pc \in {"IOError", "IndexError", "EncodeError"} => output_file = previous_output

\* C9: two runs on the same inputs with optimize on write the same bytes.
C9_TwoRunsSameOutput ==
    (run = 2 /\ args.optimize_file_order /\ pc \in Serialized) =>
        output_file = previous_output

\* C10: hashing terminates for every piece length the caller lets through:
\* read_in_pieces yields finitely many pieces, never more than the content has
\* bytes while it is still running, and once started it is exhausted (or
\* stopped by a read error).
C10_HashingTerminates ==
    /\ [](pc \in HasherStates => Len(pieces) <= Len(stream_of(fs, pf_file_paths)))
    /\ (pc = "hash_open") ~> (pc \notin HasherStates)

=============================================================================
